---- MODULE Spec2Model ----
(***************************************************************************)
(* A model of csfutil (github.com/Zhwt/csfutil): the CSF string-table      *)
(* codec, the in-memory label/value store and the save protocol.           *)
(*                                                                         *)
(* Bytes are the naturals 0..255, a Go string or []byte is a sequence of   *)
(* bytes, a file is a sequence of bytes, a Go map is a function.           *)
(***************************************************************************)
EXTENDS Integers, Sequences, FiniteSets, TLC

VARIABLES
    pc,      \* "init" | "open" | "failed": what the caller holds after New / Open;
             \* "reading" inside readContent; the position of the text codec calls
    file,    \* bytes of the file at the handle's path (r.filename)
    tmp,     \* the file "$tmp_"+r.filename: [exists, data]
    csf,     \* the CSFUtil handle: Version .. Language, Values, Categories, Order
    other,   \* a second handle (the merge command's srcFile); in the text
             \* specification the Value under test and the string read from it
    last,    \* the last call made on the handle and its arguments
    nops,    \* number of mutating calls made so far
    input    \* how the initial file was laid out: header, records, cut; in the
             \* text specification the text and the bytes handed to the codec

vars == <<pc, file, tmp, csf, other, last, nops, input>>

(***************************************************************************)
(* Bounds of the model.                                                    *)
(***************************************************************************)
\* longest sequence of label/value records in an input stream
MaxRecords == 3
\* longest sequence of WriteLabelValue(Before) / RemoveLabelValue calls
MaxOps == 3

(***************************************************************************)
(* Small helpers.                                                          *)
(***************************************************************************)
Min(a, b) == IF a <= b THEN a ELSE b

\* F(v) with v evaluated once: the v := ... of the code, F its continuation
With(v, F(_)) == (CHOOSE p \in {<<F(x)>> : x \in {v}} : TRUE)[1]

Range(s) == {s[i] : i \in 1..Len(s)}

\* s[lo:hi] of Go: the elements at the 0-based indices lo .. hi-1
Slice(s, lo, hi) == SubSeq(s, lo + 1, hi)

RECURSIVE Concat(_)
Concat(ss) == IF ss = <<>> THEN <<>> ELSE Head(ss) \o Concat(Tail(ss))

\* m[k] = v of a Go map
MapPut(m, k, v) == [x \in DOMAIN m \cup {k} |-> IF x = k THEN v ELSE m[x]]

\* delete(m, k) of a Go map
MapDelete(m, k) == [x \in DOMAIN m \ {k} |-> m[x]]

EmptyMap == [x \in {} |-> 0]

(***************************************************************************)
(* types.go: identifiers, Label, Value, LabelValue.                        *)
(***************************************************************************)
CSFFileIdentifier == <<32, 70, 83, 67>>          \* " FSC"
LabelIdentifier == <<32, 76, 66, 76>>            \* " LBL"
ValueIdentifier == <<32, 82, 84, 83>>            \* " RTS"
ValueWithExtraIdentifier == <<87, 82, 84, 83>>   \* "WRTS"

\* binary.LittleEndian.PutUint32(dword, uint32(v)); every scalar and length of
\* the model is below 2^31, so the conversion to uint32 drops nothing
PutUint32(v) ==
    <<v % 256, (v \div 256) % 256, (v \div 65536) % 256, (v \div 16777216) % 256>>

\* binary.LittleEndian.Uint32(b)
Uint32(b) == b[1] + 256 * b[2] + 65536 * b[3] + 16777216 * b[4]

\* strings.ToUpper on ASCII text: 'a'..'z' become 'A'..'Z'
ToUpper(s) == [i \in 1..Len(s) |-> IF s[i] \in 97..122 THEN s[i] - 32 ELSE s[i]]

\* b[i] = ^b[i] for every byte
Complement(b) == [i \in 1..Len(b) |-> 255 - b[i]]

\* utf16.Encode of one rune followed by the little-endian split of EncodeUTF16
EncodeRune(r) ==
    IF (0 <= r /\ r < 55296) \/ (57344 <= r /\ r < 65536)
    THEN <<r % 256, r \div 256>>
    ELSE IF 65536 <= r /\ r <= 1114111
    THEN LET x == r - 65536
             hi == 55296 + (x \div 1024)
             lo == 56320 + (x % 1024)
         IN  <<hi % 256, hi \div 256, lo % 256, lo \div 256>>
    ELSE <<253, 255>>                             \* U+FFFD

\* EncodeUTF16(s), s given as its runes
EncodeUTF16(s) == Concat([i \in 1..Len(s) |-> EncodeRune(s[i])])

\* Label.ValueString
LabelValueString(l) == l.Value

\* Label.Write
LabelWrite(l, s) == [l EXCEPT !.Value = s]

\* Label.Bytes
LabelBytes(l) ==
    LabelIdentifier \o PutUint32(1) \o PutUint32(Len(l.Value)) \o l.Value

\* Value.Bytes gone wrong: the length prefix counts bytes, not UTF-16 code units
ValueBytesByteCount(v) ==
    (IF v.HaveExtra THEN ValueWithExtraIdentifier ELSE ValueIdentifier)
    \o PutUint32(Len(v.Value)) \o v.Value
    \o (IF v.HaveExtra THEN PutUint32(Len(v.ExtraValue)) \o v.ExtraValue ELSE <<>>)

\* Value.Bytes
ValueBytes(v) ==
    (IF v.HaveExtra THEN ValueWithExtraIdentifier ELSE ValueIdentifier)
    \o PutUint32(Len(v.Value) \div 2) \o v.Value
    \o (IF v.HaveExtra THEN PutUint32(Len(v.ExtraValue)) \o v.ExtraValue ELSE <<>>)

\* LabelValue.Bytes
LabelValueBytes(lv) == LabelBytes(lv.Label) \o ValueBytes(lv.Value)

\* Value.Write
ValueWrite(v, s) == [v EXCEPT !.Value = Complement(EncodeUTF16(s))]

\* utf16.Decode: a surrogate pair is one rune, a lone surrogate is U+FFFD
RECURSIVE DecodeUnits(_)
DecodeUnits(u) ==
    IF u = <<>> THEN <<>>
    ELSE IF /\ 55296 <= u[1] /\ u[1] < 56320
            /\ Len(u) > 1 /\ 56320 <= u[2] /\ u[2] < 57344
    THEN <<65536 + (u[1] - 55296) * 1024 + (u[2] - 56320)>> \o DecodeUnits(SubSeq(u, 3, Len(u)))
    ELSE IF 55296 <= u[1] /\ u[1] < 57344
    THEN <<65533>> \o DecodeUnits(Tail(u))
    ELSE <<u[1]>> \o DecodeUnits(Tail(u))

\* DecodeUTF16: the string as its runes, and the error
DecodeUTF16(b) ==
    IF Len(b) = 0 THEN [s |-> <<>>, err |-> "nil"]
    ELSE IF Len(b) % 2 # 0 THEN [s |-> <<>>, err |-> "error"]
    ELSE [s |-> DecodeUnits([i \in 1..(Len(b) \div 2) |-> b[2 * i - 1] + 256 * b[2 * i]]),
          err |-> "nil"]

\* ValueString gone wrong: the stored bytes are complemented in place
ValueStringInPlace(v) ==
    [s |-> DecodeUTF16(Complement(v.Value)).s,
     v |-> [v EXCEPT !.Value = Complement(v.Value)]]

\* Value.ValueString: the string it returns and the receiver afterwards; the
\* complement is taken on a copy and the error of DecodeUTF16 is dropped
ValueString(v) ==
    [s |-> DecodeUTF16(Complement(v.Value)).s, v |-> v]

\* Value.WriteExtra
ValueWriteExtra(v, s) == [v EXCEPT !.HaveExtra = TRUE, !.ExtraValue = s]

\* NewLabelValueWithOffset; extra is a sequence of at most one string
NewLabelValueWithOffset(label, labelOffset, value, valueOffset, extra) ==
    LET l == LabelWrite([Offset |-> labelOffset, StringPairs |-> 1, Value |-> <<>>], label)
        v == ValueWrite([Offset |-> valueOffset, HaveExtra |-> FALSE,
                         Value |-> <<>>, ExtraValue |-> <<>>], value)
    IN  [Label |-> l,
         Value |-> IF Len(extra) > 0 THEN ValueWriteExtra(v, extra[1]) ELSE v]

\* NewLabelValue
NewLabelValue(label, value, extra) == NewLabelValueWithOffset(label, 0, value, 0, extra)

(***************************************************************************)
(* csfutil.go: the reader.  A reader is [pos, dword]: the read position of *)
(* r.file and the shared 4-byte buffer r.dword.  Errors are "nil", "EOF"   *)
(* (io.EOF, also when wrapped with %w) and "error" (anything else).        *)
(***************************************************************************)
\* (*os.File).Read into a buffer of size bytes at position pos of f
FileRead(f, pos, size) ==
    IF size = 0 THEN [n |-> 0, err |-> "nil", data |-> <<>>]
    ELSE IF Len(f) - pos <= 0 THEN [n |-> 0, err |-> "EOF", data |-> <<>>]
    ELSE [n |-> Min(size, Len(f) - pos), err |-> "nil",
          data |-> Slice(f, pos, pos + Min(size, Len(f) - pos))]

\* CSFUtil.read
read(f, r, size) ==
    With(FileRead(f, r.pos, size), LAMBDA got :
      IF got.err # "nil"
      THEN [err |-> got.err, r |-> [r EXCEPT !.pos = r.pos + got.n], val |-> <<>>]
      ELSE IF got.n # size
      THEN [err |-> "error", r |-> [r EXCEPT !.pos = r.pos + got.n], val |-> got.data]
      ELSE [err |-> "nil", r |-> [r EXCEPT !.pos = r.pos + got.n], val |-> got.data])

\* CSFUtil.readDWORD: a short read overwrites the first n bytes of r.dword
readDWORD(f, r) ==
    With(FileRead(f, r.pos, 4), LAMBDA got :
      [err |-> IF got.err # "nil" THEN got.err
               ELSE IF got.n # 4 THEN "error" ELSE "nil",
       r |-> [pos |-> r.pos + got.n, dword |-> got.data \o Slice(r.dword, got.n, 4)]])

\* CSFUtil.readUInt
readUInt(f, r) ==
    With(readDWORD(f, r), LAMBDA d :
      IF d.err # "nil" THEN [err |-> d.err, r |-> d.r, val |-> 0]
      ELSE [err |-> "nil", r |-> d.r, val |-> Uint32(d.r.dword)])

\* CSFUtil.checkIdentifier
checkIdentifier(f, r, ids) ==
    With(readDWORD(f, r), LAMBDA d :
      IF d.err # "nil" THEN [err |-> d.err, r |-> d.r]
      ELSE IF d.r.dword \in ids THEN [err |-> "nil", r |-> d.r]
      ELSE [err |-> "error", r |-> d.r])

\* the zero value of CSFUtil, as Open builds it before parsing
ZeroCSF ==
    [Version |-> 0, NumLabels |-> 0, NumStrings |-> 0, Unused |-> 0, Language |-> 0,
     Values |-> EmptyMap, Categories |-> EmptyMap, Order |-> <<>>]

\* CSFUtil.readHeader: every scalar read so far stays assigned when a later read fails
readHeader(f, r, h) ==
    With(checkIdentifier(f, r, {CSFFileIdentifier}), LAMBDA id :
      IF id.err # "nil" THEN [err |-> id.err, r |-> id.r, csf |-> h] ELSE
    With(readUInt(f, id.r), LAMBDA version :
      IF version.err # "nil" THEN [err |-> version.err, r |-> version.r, csf |-> h] ELSE
    With(readUInt(f, version.r), LAMBDA labels :
      IF labels.err # "nil"
      THEN [err |-> labels.err, r |-> labels.r,
            csf |-> [h EXCEPT !.Version = version.val]] ELSE
    With(readUInt(f, labels.r), LAMBDA strings :
      IF strings.err # "nil"
      THEN [err |-> strings.err, r |-> strings.r,
            csf |-> [h EXCEPT !.Version = version.val, !.NumLabels = labels.val]] ELSE
    With(readUInt(f, strings.r), LAMBDA unused :
      IF unused.err # "nil"
      THEN [err |-> unused.err, r |-> unused.r,
            csf |-> [h EXCEPT !.Version = version.val, !.NumLabels = labels.val,
                              !.NumStrings = strings.val]] ELSE
    With(readUInt(f, unused.r), LAMBDA language :
      IF language.err # "nil"
      THEN [err |-> language.err, r |-> language.r,
            csf |-> [h EXCEPT !.Version = version.val, !.NumLabels = labels.val,
                              !.NumStrings = strings.val, !.Unused = unused.val]]
      ELSE [err |-> "nil", r |-> language.r,
            csf |-> [h EXCEPT !.Version = version.val, !.NumLabels = labels.val,
                              !.NumStrings = strings.val, !.Unused = unused.val,
                              !.Language = language.val]]))))))

NoLabel == [Offset |-> 0, StringPairs |-> 0, Value |-> <<>>]

NoValue == [Offset |-> 0, HaveExtra |-> FALSE, Value |-> <<>>, ExtraValue |-> <<>>]

\* CSFUtil.readLabel
readLabel(f, r) ==
    With(checkIdentifier(f, r, {LabelIdentifier}), LAMBDA id :
      IF id.err # "nil" THEN [err |-> id.err, r |-> id.r, val |-> NoLabel] ELSE
    With(readUInt(f, id.r), LAMBDA pairs :
      IF pairs.err # "nil" THEN [err |-> pairs.err, r |-> pairs.r, val |-> NoLabel] ELSE
    With(readUInt(f, pairs.r), LAMBDA length :
      IF length.err # "nil" THEN [err |-> length.err, r |-> length.r, val |-> NoLabel] ELSE
    With(read(f, length.r, length.val), LAMBDA value :
      IF value.err # "nil" THEN [err |-> value.err, r |-> value.r, val |-> NoLabel]
      ELSE [err |-> "nil", r |-> value.r,
            val |-> [Offset |-> r.pos, StringPairs |-> pairs.val, Value |-> value.val]]))))

\* the extra part of CSFUtil.readValue: the error of readUInt is overwritten unread
readExtra(f, r) ==
    With(readUInt(f, r), LAMBDA extraLength : read(f, extraLength.r, extraLength.val))

\* CSFUtil.readValue
readValue(f, r) ==
    With(checkIdentifier(f, r, {ValueIdentifier, ValueWithExtraIdentifier}), LAMBDA id :
      IF id.err # "nil" THEN [err |-> id.err, r |-> id.r, val |-> NoValue] ELSE
    With(readUInt(f, id.r), LAMBDA length :
      IF length.err # "nil" THEN [err |-> length.err, r |-> length.r, val |-> NoValue] ELSE
    With(read(f, length.r, length.val * 2), LAMBDA value :
      IF value.err # "nil" THEN [err |-> value.err, r |-> value.r, val |-> NoValue] ELSE
    With(IF id.r.dword = ValueWithExtraIdentifier THEN readExtra(f, value.r)
         ELSE [err |-> "nil", r |-> value.r, val |-> <<>>], LAMBDA extraVal :
      IF extraVal.err # "nil"
      THEN [err |-> extraVal.err, r |-> extraVal.r, val |-> NoValue]
      ELSE [err |-> "nil", r |-> extraVal.r,
            val |-> [Offset |-> r.pos,
                     HaveExtra |-> id.r.dword = ValueWithExtraIdentifier,
                     Value |-> value.val, ExtraValue |-> extraVal.val]]))))

Colon == <<58>>

\* strings.Contains(s, ":")
ContainsColon(s) == \E i \in 1..Len(s) : s[i] = Colon[1]

\* strings.Index(s, ":"), 0-based; called only when s contains ":"
IndexColon(s) ==
    (CHOOSE i \in 1..Len(s) : s[i] = Colon[1] /\ \A j \in 1..(i - 1) : s[j] # Colon[1]) - 1

\* the category bookkeeping of readContent for a label name seen for the first time
addCategory(mapCate, upperLabelName, labelName) ==
    IF ContainsColon(upperLabelName)
    THEN With(Slice(upperLabelName, 0, IndexColon(upperLabelName)), LAMBDA categoryName :
           IF categoryName \in DOMAIN mapCate
           THEN MapPut(mapCate, categoryName, Append(mapCate[categoryName], labelName))
           ELSE MapPut(mapCate, categoryName, <<>>))
    ELSE IF <<>> \in DOMAIN mapCate
         THEN MapPut(mapCate, <<>>, Append(mapCate[<<>>], labelName))
         ELSE MapPut(mapCate, <<>>, <<>>)

\* the counter limit of readContent
MaxCounter == 20000

\* foldRecord gone wrong: a repeated name keeps the entry of its first record
foldRecordFirstWins(st, label, value) ==
    With(ToUpper(LabelValueString(label)), LAMBDA upperLabelName :
      IF upperLabelName \in DOMAIN st.mapLabelValue
      THEN [st EXCEPT !.counter = st.counter + 1]
      ELSE [mapLabelValue |-> MapPut(st.mapLabelValue, upperLabelName,
                                     [Label |-> label, Value |-> value]),
            mapCate |-> addCategory(st.mapCate, upperLabelName, LabelValueString(label)),
            listOrder |-> Append(st.listOrder, upperLabelName),
            counter |-> st.counter + 1])

\* the body of the loop of readContent once a label and its value are read
foldRecord(st, label, value) ==
    With(ToUpper(LabelValueString(label)), LAMBDA upperLabelName :
      [mapLabelValue |-> MapPut(st.mapLabelValue, upperLabelName,
                                [Label |-> label, Value |-> value]),
       mapCate |-> IF upperLabelName \notin DOMAIN st.mapLabelValue
                   THEN addCategory(st.mapCate, upperLabelName, LabelValueString(label))
                   ELSE st.mapCate,
       listOrder |-> IF upperLabelName \notin DOMAIN st.mapLabelValue
                     THEN Append(st.listOrder, upperLabelName)
                     ELSE st.listOrder,
       counter |-> st.counter + 1])

\* readContentLoop gone wrong: the limit is hit one record early
RECURSIVE readContentLoopEarly(_, _, _)
readContentLoopEarly(f, r, st) ==
    With(readLabel(f, r), LAMBDA label :
      IF label.err = "EOF" THEN [err |-> "nil", st |-> st]
      ELSE IF label.err # "nil" THEN [err |-> label.err, st |-> st] ELSE
    With(readValue(f, label.r), LAMBDA value :
      IF value.err = "EOF" THEN [err |-> "nil", st |-> st]
      ELSE IF value.err # "nil" THEN [err |-> value.err, st |-> st] ELSE
    With(foldRecord(st, label.val, value.val), LAMBDA st2 :
      IF st2.counter >= MaxCounter THEN [err |-> "error", st |-> st2]
      ELSE readContentLoopEarly(f, value.r, st2))))

\* the loop of CSFUtil.readContent; st holds mapLabelValue, mapCate, listOrder, counter
RECURSIVE readContentLoop(_, _, _)
readContentLoop(f, r, st) ==
    With(readLabel(f, r), LAMBDA label :
      IF label.err = "EOF" THEN [err |-> "nil", st |-> st]
      ELSE IF label.err # "nil" THEN [err |-> label.err, st |-> st] ELSE
    With(readValue(f, label.r), LAMBDA value :
      IF value.err = "EOF" THEN [err |-> "nil", st |-> st]
      ELSE IF value.err # "nil" THEN [err |-> value.err, st |-> st] ELSE
    With(foldRecord(st, label.val, value.val), LAMBDA st2 :
      IF st2.counter > MaxCounter THEN [err |-> "error", st |-> st2]
      ELSE readContentLoop(f, value.r, st2))))

\* the locals of readContent before its loop
NoRecords ==
    [mapLabelValue |-> EmptyMap, mapCate |-> EmptyMap, listOrder |-> <<>>, counter |-> 0]

\* CSFUtil.readContent with its loop at state st: the three collections are
\* published only on success
readContentFrom(f, r, h, st) ==
    With(readContentLoop(f, r, st), LAMBDA res :
      IF res.err # "nil" THEN [err |-> res.err, csf |-> h]
      ELSE [err |-> "nil",
            csf |-> [h EXCEPT !.Values = res.st.mapLabelValue,
                              !.Categories = res.st.mapCate,
                              !.Order = res.st.listOrder]])

\* CSFUtil.readContent
readContent(f, r, h) == readContentFrom(f, r, h, NoRecords)

\* CSFUtil.openAndParse on an existing file f
openAndParse(f, h) ==
    With(readHeader(f, [pos |-> 0, dword |-> <<0, 0, 0, 0>>], h), LAMBDA hd :
      IF hd.err # "nil" THEN [err |-> hd.err, csf |-> hd.csf]
      ELSE readContent(f, hd.r, hd.csf))

\* Open: the handle and the error it returns
OpenFile(f) == openAndParse(f, ZeroCSF)

\* New
New(version, unused, language) ==
    [Version |-> version, NumLabels |-> 0, NumStrings |-> 0, Unused |-> unused,
     Language |-> language, Values |-> EmptyMap, Categories |-> EmptyMap, Order |-> <<>>]

(***************************************************************************)
(* csfutil.go: the store operations.  They take and return a handle.       *)
(***************************************************************************)
\* the scan of WriteLabelValueBefore: the last 0-based index of successorUpper
\* in Order, len(Order) when there is none
successorPos(order, successorUpper) ==
    LET hits == {i \in 1..Len(order) : order[i] = successorUpper}
    IN  IF hits = {} THEN Len(order)
        ELSE (CHOOSE i \in hits : \A j \in hits : j <= i) - 1

\* append(append(r.Order[0:pos], name), r.Order[pos:l]...): r.Order[0:pos] has
\* spare capacity whenever pos < l, so the inner append stores name in the shared
\* backing array at index pos, and the outer append then copies r.Order[pos:l]
\* out of that array
insertBefore(order, pos, name) ==
    LET l == Len(order)
        backing == IF pos < l THEN [order EXCEPT ![pos + 1] = name] ELSE order
    IN  Slice(order, 0, pos) \o <<name>> \o Slice(backing, pos, l)

\* overwriteLabelValue gone wrong: the supplied label text is stored even when
\* overwriteLabel is not set
overwriteLabelValueSupplied(old, lv, overwriteLabel) == lv

\* the label stored by the overwrite branch of WriteLabelValueBefore
overwriteLabelValue(old, lv, overwriteLabel) ==
    IF ~overwriteLabel
    THEN [lv EXCEPT !.Label = LabelWrite(lv.Label, LabelValueString(old.Label))]
    ELSE lv

\* which branch WriteLabelValueBefore takes
writeBranch(h, lv, successor) ==
    IF ToUpper(LabelValueString(lv.Label)) \in DOMAIN h.Values THEN "overwrite"
    ELSE IF ToUpper(successor) \in DOMAIN h.Values THEN "middle"
    ELSE "end"

\* CSFUtil.WriteLabelValueBefore
WriteLabelValueBefore(h, lv, overwriteLabel, successor) ==
    LET successorUpper == ToUpper(successor)
        labelNameUpper == ToUpper(LabelValueString(lv.Label))
        branch == writeBranch(h, lv, successor)
        lv2 == IF branch = "overwrite"
               THEN overwriteLabelValue(h.Values[labelNameUpper], lv, overwriteLabel)
               ELSE lv
        order2 == IF branch = "overwrite" THEN h.Order
                  ELSE IF branch = "middle"
                  THEN insertBefore(h.Order, successorPos(h.Order, successorUpper),
                                    labelNameUpper)
                  ELSE Append(h.Order, labelNameUpper)
        values2 == MapPut(h.Values, labelNameUpper, lv2)
    IN  [h EXCEPT !.Order = order2, !.Values = values2,
                  !.NumLabels = Cardinality(DOMAIN values2),
                  !.NumStrings = Cardinality(DOMAIN values2)]

\* CSFUtil.WriteLabelValue
WriteLabelValue(h, lv, overwriteLabel) == WriteLabelValueBefore(h, lv, overwriteLabel, <<>>)

\* the loop of RemoveLabelValue: drop the first element equal to upperName
removeFirst(order, upperName) ==
    LET hits == {i \in 1..Len(order) : order[i] = upperName}
        i == CHOOSE k \in hits : \A j \in hits : k <= j
    IN  IF hits = {} THEN order
        ELSE IF Len(order) > 1 THEN Slice(order, 0, i - 1) \o Slice(order, i, Len(order))
        ELSE <<>>

\* CSFUtil.RemoveLabelValue
RemoveLabelValue(h, name) ==
    IF Len(h.Order) = 0 THEN h
    ELSE LET upperName == ToUpper(name)
             values2 == MapDelete(h.Values, upperName)
         IN  [h EXCEPT !.Values = values2,
                       !.Order = removeFirst(h.Order, upperName),
                       !.NumLabels = Cardinality(DOMAIN values2),
                       !.NumStrings = Cardinality(DOMAIN values2)]

\* r.Values[s]: the zero LabelValue when s is no key
valueAt(h, s) ==
    IF s \in DOMAIN h.Values THEN h.Values[s]
    ELSE [Label |-> NoLabel, Value |-> NoValue]

\* the buffer Save builds: the header, then one record per element of Order
saveBuffer(h) ==
    CSFFileIdentifier \o PutUint32(h.Version) \o PutUint32(h.NumLabels)
    \o PutUint32(h.NumStrings) \o PutUint32(h.Unused) \o PutUint32(h.Language)
    \o Concat([i \in 1..Len(h.Order) |-> LabelValueBytes(valueAt(h, h.Order[i]))])

\* f.Write(b) on a file opened with O_WRONLY|O_CREATE and no O_TRUNC: the first
\* n bytes of b replace the first n bytes of the file, the rest of the file stays
writeOver(old, b, n) ==
    Slice(b, 0, n) \o (IF Len(old) > n THEN Slice(old, n, Len(old)) ELSE <<>>)

\* how many bytes a failing f.Write may have written
PartialWrites(b) == {0, Len(b) \div 2}

\* the steps of Save at which the call can return
SaveOutcomes == {"ok", "create", "write", "sync", "rename"}

\* Save gone wrong: the buffer is written over the original file itself
SaveInPlace(h, f, t, outcome, n) ==
    IF outcome = "create" THEN [err |-> "error", file |-> f, tmp |-> t] ELSE
    With(saveBuffer(h), LAMBDA b :
      IF outcome = "write"
      THEN [err |-> "error", file |-> writeOver(f, b, n), tmp |-> t]
      ELSE IF outcome \in {"sync", "rename"}
      THEN [err |-> "error", file |-> writeOver(f, b, Len(b)), tmp |-> t]
      ELSE [err |-> "nil", file |-> writeOver(f, b, Len(b)), tmp |-> t])

\* CSFUtil.Save: the original file and the temporary file afterwards; outcome
\* names the step that fails ("ok": none), n the bytes a failing write got out
Save(h, f, t, outcome, n) ==
    IF outcome = "create" THEN [err |-> "error", file |-> f, tmp |-> t] ELSE
    With(saveBuffer(h), LAMBDA b :
      IF outcome = "write"
      THEN [err |-> "error", file |-> f,
            tmp |-> [exists |-> TRUE, data |-> writeOver(t.data, b, n)]]
      ELSE IF outcome \in {"sync", "rename"}
      THEN [err |-> "error", file |-> f,
            tmp |-> [exists |-> TRUE, data |-> writeOver(t.data, b, Len(b))]]
      ELSE [err |-> "nil", file |-> writeOver(t.data, b, Len(b)),
            tmp |-> [exists |-> FALSE, data |-> <<>>]])

\* mergeLoop gone wrong: the source's label text replaces the destination's
RECURSIVE mergeLoopSourceLabel(_, _, _)
mergeLoopSourceLabel(srcFile, dstFile, names) ==
    IF names = <<>> THEN dstFile
    ELSE With(IF Head(names) \in DOMAIN srcFile.Values
              THEN WriteLabelValue(dstFile, srcFile.Values[Head(names)], TRUE)
              ELSE dstFile,
              LAMBDA dst2 : mergeLoopSourceLabel(srcFile, dst2, Tail(names)))

\* merge of cmd/main.go after both files are open: the loop over dstFile.Order
RECURSIVE mergeLoop(_, _, _)
mergeLoop(srcFile, dstFile, names) ==
    IF names = <<>> THEN dstFile
    ELSE With(IF Head(names) \in DOMAIN srcFile.Values
              THEN WriteLabelValue(dstFile, srcFile.Values[Head(names)], FALSE)
              ELSE dstFile,
              LAMBDA dst2 : mergeLoop(srcFile, dst2, Tail(names)))

(***************************************************************************)
(* The inputs: files laid out as section 4.1 of the format describes, cut  *)
(* at any byte of their last section, and the arguments of the calls.      *)
(***************************************************************************)
\* a little-endian uint32 field of an input file
WireDword(v) == <<v % 256, (v \div 256) % 256, (v \div 65536) % 256, v \div 16777216>>

\* the header of an input file
WireHeader(hdr) ==
    <<32, 70, 83, 67>> \o WireDword(hdr.Version) \o WireDword(hdr.NumLabels)
    \o WireDword(hdr.NumStrings) \o WireDword(hdr.Unused) \o WireDword(hdr.Language)

\* one label record and its value record in an input file
WireRecord(rec) ==
    <<32, 76, 66, 76>> \o WireDword(rec.StringPairs) \o WireDword(Len(rec.Name)) \o rec.Name
    \o (IF rec.HaveExtra THEN <<87, 82, 84, 83>> ELSE <<32, 82, 84, 83>>)
    \o WireDword(Len(rec.Text) \div 2) \o rec.Text
    \o (IF rec.HaveExtra THEN WireDword(Len(rec.Extra)) \o rec.Extra ELSE <<>>)

\* the last section of an input file: its last record, or the header
LastSection(hdr, recs) ==
    IF recs = <<>> THEN WireHeader(hdr) ELSE WireRecord(recs[Len(recs)])

\* the input file with only the first cut bytes of its last section
WireFile(hdr, recs, cut) ==
    (IF recs = <<>> THEN <<>>
     ELSE WireHeader(hdr) \o Concat([i \in 1..(Len(recs) - 1) |-> WireRecord(recs[i])]))
    \o Slice(LastSection(hdr, recs), 0, cut)

\* the cuts of an input file: a record that is there has at least one byte
Cuts(hdr, recs) ==
    (IF recs = <<>> THEN 0 ELSE 1) .. Len(LastSection(hdr, recs))

\* the input file ends with its last section complete
Complete(in) == in.cut = Len(LastSection(in.hdr, in.recs))

\* two headers; the second has counters that differ from the number of records.
\* The store and the merge destination are opened from files with the second,
\* the merge source from files with the first.
Headers ==
    {[Version |-> 3, NumLabels |-> 1, NumStrings |-> 1, Unused |-> 0, Language |-> 0],
     [Version |-> 2, NumLabels |-> 4, NumStrings |-> 258, Unused |-> 7, Language |-> 15]}

\* "T:a" -> "h";  "T:A" -> "" (the same name in another case);  "T:b" -> "h"
\* with extra "x";  "a" -> "" with pairCount 2.  Text bytes are complemented
\* UTF-16LE.
InputRecords ==
    {[StringPairs |-> 1, Name |-> <<84, 58, 97>>, HaveExtra |-> FALSE,
      Text |-> <<151, 255>>, Extra |-> <<>>],
     [StringPairs |-> 1, Name |-> <<84, 58, 65>>, HaveExtra |-> FALSE,
      Text |-> <<>>, Extra |-> <<>>],
     [StringPairs |-> 1, Name |-> <<84, 58, 98>>, HaveExtra |-> TRUE,
      Text |-> <<151, 255>>, Extra |-> <<120>>],
     [StringPairs |-> 2, Name |-> <<97>>, HaveExtra |-> FALSE,
      Text |-> <<>>, Extra |-> <<>>]}

\* the sequences over S of length at most n
SeqsUpTo(S, n) == UNION {[1..k -> S] : k \in 0..n}

\* longest sequence of records in the file the store specification opens
MaxStoreRecords == 1
\* longest sequence of records in the files the merge command opens
MaxMergeRecords == 2

\* label strings, value texts (as runes) and extras handed to NewLabelValue
WriteLabels == {<<>>, <<97>>, <<65>>}
WriteTexts == {<<122>>}
WriteExtras == {<<>>, <<<<120>>>>}

\* the LabelValue arguments of the write calls
WriteArgs ==
    {NewLabelValue(l, t, e) : l \in WriteLabels, t \in WriteTexts, e \in WriteExtras}

\* successor arguments: none, or a name in another case than the stored one
Successors == {<<>>, <<97>>, <<116, 58, 65>>}

\* names handed to RemoveLabelValue
RemoveNames == {<<>>, <<97>>, <<116, 58, 65>>}

NoCall ==
    [op |-> "none", lv |-> [Label |-> NoLabel, Value |-> NoValue],
     overwriteLabel |-> FALSE, successor |-> <<>>, name |-> <<>>, err |-> "nil"]

NoTmp == [exists |-> FALSE, data |-> <<>>]

(***************************************************************************)
(* The store specification: New or Open, then writes and removals.         *)
(***************************************************************************)
Init ==
    /\ \E hdr \in Headers, recs \in SeqsUpTo(InputRecords, MaxStoreRecords) :
         /\ hdr.Version = 2
         /\ input = [hdr |-> hdr, recs |-> recs, cut |-> Len(LastSection(hdr, recs))]
         /\ file = WireFile(hdr, recs, Len(LastSection(hdr, recs)))
    /\ pc = "init"
    /\ tmp = NoTmp
    /\ csf = ZeroCSF
    /\ other = [file |-> <<>>, csf |-> ZeroCSF]
    /\ last = NoCall
    /\ nops = 0

DoNew ==
    /\ pc = "init"
    /\ csf' = New(3, 0, 0)
    /\ pc' = "open"
    /\ last' = [NoCall EXCEPT !.op = "New"]
    /\ UNCHANGED <<file, tmp, other, nops, input>>

DoOpen ==
    /\ pc = "init"
    /\ \E res \in {OpenFile(file)} :
           /\ csf' = res.csf
           /\ pc' = IF res.err = "nil" THEN "open" ELSE "failed"
           /\ last' = [NoCall EXCEPT !.op = "Open", !.err = res.err]
    /\ UNCHANGED <<file, tmp, other, nops, input>>

DoWriteLabelValueBefore ==
    /\ pc = "open"
    /\ nops < MaxOps
    /\ \E lv \in WriteArgs, overwriteLabel \in BOOLEAN, successor \in Successors :
         /\ csf' = WriteLabelValueBefore(csf, lv, overwriteLabel, successor)
         /\ last' = [NoCall EXCEPT !.op = "WriteLabelValueBefore", !.lv = lv,
                                   !.overwriteLabel = overwriteLabel,
                                   !.successor = successor]
    /\ nops' = nops + 1
    /\ UNCHANGED <<pc, file, tmp, other, input>>

DoWriteLabelValue ==
    /\ pc = "open"
    /\ nops < MaxOps
    /\ \E lv \in WriteArgs, overwriteLabel \in BOOLEAN :
         /\ csf' = WriteLabelValue(csf, lv, overwriteLabel)
         /\ last' = [NoCall EXCEPT !.op = "WriteLabelValue", !.lv = lv,
                                   !.overwriteLabel = overwriteLabel]
    /\ nops' = nops + 1
    /\ UNCHANGED <<pc, file, tmp, other, input>>

DoRemoveLabelValue ==
    /\ pc = "open"
    /\ nops < MaxOps
    /\ \E name \in RemoveNames :
         /\ csf' = RemoveLabelValue(csf, name)
         /\ last' = [NoCall EXCEPT !.op = "RemoveLabelValue", !.name = name]
    /\ nops' = nops + 1
    /\ UNCHANGED <<pc, file, tmp, other, input>>

Next ==
    \/ DoNew
    \/ DoOpen
    \/ DoWriteLabelValueBefore
    \/ DoWriteLabelValue
    \/ DoRemoveLabelValue

Spec == Init /\ [][Next]_vars

(***************************************************************************)
(* The codec specification: Open of a file that may end anywhere in its    *)
(* last section, then Save with no call in between.                        *)
(***************************************************************************)
InitCodec ==
    /\ \E hdr \in Headers, recs \in SeqsUpTo(InputRecords, MaxRecords) :
         \E cut \in Cuts(hdr, recs) :
           /\ input = [hdr |-> hdr, recs |-> recs, cut |-> cut]
           /\ file = WireFile(hdr, recs, cut)
    /\ pc = "init"
    /\ tmp = NoTmp
    /\ csf = ZeroCSF
    /\ other = [file |-> <<>>, csf |-> ZeroCSF]
    /\ last = NoCall
    /\ nops = 0

DoSave ==
    /\ pc = "open"
    /\ \E outcome \in SaveOutcomes, n \in PartialWrites(saveBuffer(csf)) :
         \E res \in {Save(csf, file, tmp, outcome, n)} :
             /\ file' = res.file
             /\ tmp' = res.tmp
             /\ last' = [NoCall EXCEPT !.op = "Save", !.err = res.err]
    /\ UNCHANGED <<pc, csf, other, nops, input>>

NextCodec ==
    \/ DoOpen
    \/ DoSave

SpecCodec == InitCodec /\ [][NextCodec]_vars

(***************************************************************************)
(* The merge specification: the merge command of cmd/main.go on a source   *)
(* file (other.file) and a destination file (file).                        *)
(***************************************************************************)
InitMerge ==
    /\ \E hdr \in Headers, recs \in SeqsUpTo(InputRecords, MaxMergeRecords) :
         /\ hdr.Version = 2
         /\ input = [hdr |-> hdr, recs |-> recs, cut |-> Len(LastSection(hdr, recs))]
         /\ file = WireFile(hdr, recs, Len(LastSection(hdr, recs)))
    /\ \E hdr \in Headers, recs \in SeqsUpTo(InputRecords, MaxMergeRecords) :
         /\ hdr.Version = 3
         /\ other = [file |-> WireFile(hdr, recs, Len(LastSection(hdr, recs))),
                     csf |-> ZeroCSF]
    /\ pc = "init"
    /\ tmp = NoTmp
    /\ csf = ZeroCSF
    /\ last = NoCall
    /\ nops = 0

\* merge of cmd/main.go: open both files, overwrite, save the destination
DoMerge ==
    /\ pc = "init"
    /\ \E srcFile \in {OpenFile(other.file)}, dstFile \in {OpenFile(file)} :
         IF srcFile.err # "nil"
         THEN /\ other' = [other EXCEPT !.csf = srcFile.csf]
              /\ pc' = "failed"
              /\ last' = [NoCall EXCEPT !.op = "merge", !.err = srcFile.err]
              /\ UNCHANGED <<csf, file, tmp>>
         ELSE IF dstFile.err # "nil"
         THEN /\ other' = [other EXCEPT !.csf = srcFile.csf]
              /\ csf' = dstFile.csf
              /\ pc' = "failed"
              /\ last' = [NoCall EXCEPT !.op = "merge", !.err = dstFile.err]
              /\ UNCHANGED <<file, tmp>>
         ELSE \E merged \in {mergeLoop(srcFile.csf, dstFile.csf, dstFile.csf.Order)} :
              \E outcome \in SaveOutcomes, n \in PartialWrites(saveBuffer(merged)) :
              \E res \in {Save(merged, file, tmp, outcome, n)} :
                /\ other' = [other EXCEPT !.csf = srcFile.csf]
                /\ csf' = merged
                /\ file' = res.file
                /\ tmp' = res.tmp
                /\ pc' = "open"
                /\ last' = [NoCall EXCEPT !.op = "merge", !.err = res.err]
    /\ UNCHANGED <<nops, input>>

NextMerge == DoMerge

SpecMerge == InitMerge /\ [][NextMerge]_vars

(***************************************************************************)
(* The save specification: New or Open, writes and removals, and Save at   *)
(* any point, failing at any of its steps.                                 *)
(***************************************************************************)
\* Save as one of the at most MaxOps calls made on the handle
DoSaveCall ==
    /\ pc = "open"
    /\ nops < MaxOps
    /\ \E outcome \in SaveOutcomes, n \in PartialWrites(saveBuffer(csf)) :
         \E res \in {Save(csf, file, tmp, outcome, n)} :
             /\ file' = res.file
             /\ tmp' = res.tmp
             /\ last' = [NoCall EXCEPT !.op = "Save", !.err = res.err]
    /\ nops' = nops + 1
    /\ UNCHANGED <<pc, csf, other, input>>

NextSave ==
    \/ DoNew
    \/ DoOpen
    \/ DoWriteLabelValue
    \/ DoRemoveLabelValue
    \/ DoSaveCall

SpecSave == Init /\ [][NextSave]_vars

(***************************************************************************)
(* The text specification: Value.Write of a text followed by ValueString,  *)
(* and the bytewise complement applied twice to stored bytes.              *)
(***************************************************************************)
\* longest text, in runes, and longest stored byte sequence
MaxText == 2
MaxBytes == 2

\* Unicode scalar values: ASCII, Latin-1, CJK, the neighbours of the surrogate
\* range, U+FFFD, U+FFFF, and the first and last rune outside the BMP
Runes == {0, 65, 233, 20013, 55295, 57344, 65533, 65535, 65536, 1114111}

StoredBytes == {0, 170, 255}

\* other holds the Value under test and the string last returned from it
InitText ==
    /\ \E s \in SeqsUpTo(Runes, MaxText), b \in SeqsUpTo(StoredBytes, MaxBytes) :
         /\ input = [text |-> s, bytes |-> b]
         /\ other = [value |-> [NoValue EXCEPT !.Value = b], text |-> <<>>]
    /\ pc = "init"
    /\ file = <<>>
    /\ tmp = NoTmp
    /\ csf = ZeroCSF
    /\ last = NoCall
    /\ nops = 0

DoValueWrite ==
    /\ pc = "init"
    /\ other' = [other EXCEPT !.value = ValueWrite(other.value, input.text)]
    /\ pc' = "written"
    /\ last' = [NoCall EXCEPT !.op = "Write"]
    /\ UNCHANGED <<file, tmp, csf, nops, input>>

DoValueString ==
    /\ pc = "written"
    /\ \E res \in {ValueString(other.value)} :
         other' = [value |-> res.v, text |-> res.s]
    /\ pc' = "read"
    /\ last' = [NoCall EXCEPT !.op = "ValueString"]
    /\ UNCHANGED <<file, tmp, csf, nops, input>>

\* the loop b[i] = ^b[i] run over the stored bytes, at most twice
DoComplement ==
    /\ pc \in {"init", "once"}
    /\ other' = [other EXCEPT !.value.Value = Complement(other.value.Value)]
    /\ pc' = IF pc = "init" THEN "once" ELSE "twice"
    /\ last' = [NoCall EXCEPT !.op = "complement"]
    /\ UNCHANGED <<file, tmp, csf, nops, input>>

NextText ==
    \/ DoValueWrite
    \/ DoValueString
    \/ DoComplement

SpecText == InitText /\ [][NextText]_vars

(***************************************************************************)
(* The limit specification: readContent near its counter limit.  The loop  *)
(* has read input.done records: those of input.seen, then the last of them *)
(* again and again.  file holds the unread rest of the stream, the records *)
(* of input.recs, and offsets count from its first byte.                   *)
(***************************************************************************)
\* most records already seen with different content, and most records unread
MaxSeen == 1
MaxRest == 2

\* the locals of readContent after done records that end in repetitions of the
\* last record of seen
LoopStateAfter(seen, done) ==
    [readContentLoop(Concat([i \in 1..Len(seen) |-> WireRecord(seen[i])]),
                     [pos |-> 0, dword |-> <<0, 0, 0, 0>>], NoRecords).st
       EXCEPT !.counter = done]

InitLimit ==
    /\ \E hdr \in Headers, seen \in SeqsUpTo(InputRecords, MaxSeen),
          recs \in SeqsUpTo(InputRecords, MaxRest),
          done \in (MaxCounter - MaxRest)..MaxCounter :
         /\ seen # <<>>
         /\ input = [hdr |-> hdr, seen |-> seen, done |-> done, recs |-> recs]
         /\ file = Concat([i \in 1..Len(recs) |-> WireRecord(recs[i])])
         /\ csf = [ZeroCSF EXCEPT !.Version = hdr.Version, !.NumLabels = hdr.NumLabels,
                                  !.NumStrings = hdr.NumStrings, !.Unused = hdr.Unused,
                                  !.Language = hdr.Language]
    /\ pc = "reading"
    /\ tmp = NoTmp
    /\ other = [file |-> <<>>, csf |-> ZeroCSF]
    /\ last = NoCall
    /\ nops = 0

\* the rest of readContent, and with it of Open
DoReadRest ==
    /\ pc = "reading"
    /\ \E res \in {readContentFrom(file, [pos |-> 0, dword |-> <<0, 0, 0, 0>>], csf,
                                    LoopStateAfter(input.seen, input.done))} :
         /\ csf' = res.csf
         /\ pc' = IF res.err = "nil" THEN "open" ELSE "failed"
         /\ last' = [NoCall EXCEPT !.op = "Open", !.err = res.err]
    /\ UNCHANGED <<file, tmp, other, nops, input>>

NextLimit == DoReadRest

SpecLimit == InitLimit /\ [][NextLimit]_vars

(***************************************************************************)
(* Properties of the store (checked under Spec).                           *)
(***************************************************************************)
NoDuplicates(s) == \A i, j \in 1..Len(s) : s[i] = s[j] => i = j

\* the key of the LabelValue handed to the last write call
LastKey(l) == ToUpper(LabelValueString(l.lv.Label))

IsWrite(l) == l.op \in {"WriteLabelValue", "WriteLabelValueBefore"}

\* s is t with x inserted at the 0-based index p
InsertedAt(s, t, x, p) == s = Slice(t, 0, p) \o <<x>> \o Slice(t, p, Len(t))

\* C1: on a handle returned by New or by a successful Open, after any sequence of
\* writes and removals, Order holds no name twice and holds exactly the keys of
\* Values.
C1_OrderMatchesValues ==
    pc = "open" =>
        /\ NoDuplicates(csf.Order)
        /\ Range(csf.Order) = DOMAIN csf.Values

\* C2: WriteLabelValueBefore with a name that is no key and a successor that is a
\* key leaves the previous Order with the new uppercase name inserted right
\* before the successor: nothing else is added, lost or moved.
C2_InsertedBeforeSuccessor ==
    [][(/\ last'.op = "WriteLabelValueBefore"
        /\ LastKey(last') \notin DOMAIN csf.Values
        /\ ToUpper(last'.successor) \in DOMAIN csf.Values)
       => \E p \in 0..(Len(csf.Order) - 1) :
            /\ csf.Order[p + 1] = ToUpper(last'.successor)
            /\ InsertedAt(csf'.Order, csf.Order, LastKey(last'), p)]_vars

\* C7: a write whose name is already a key replaces the value, keeps the stored
\* label text unless overwriteLabel is set (then the supplied text is stored),
\* and leaves Order, Categories and every other entry as they were.
C7_OverwriteInPlace ==
    [][(IsWrite(last') /\ LastKey(last') \in DOMAIN csf.Values)
       => /\ csf'.Order = csf.Order
          /\ csf'.Categories = csf.Categories
          /\ DOMAIN csf'.Values = DOMAIN csf.Values
          /\ \A k \in DOMAIN csf.Values \ {LastKey(last')} :
               csf'.Values[k] = csf.Values[k]
          /\ csf'.Values[LastKey(last')].Value = last'.lv.Value
          /\ LabelValueString(csf'.Values[LastKey(last')].Label)
               = IF last'.overwriteLabel THEN LabelValueString(last'.lv.Label)
                 ELSE LabelValueString(csf.Values[LastKey(last')].Label)]_vars

\* C7 happens: a write without overwriteLabel has just replaced the value of a
\* key whose stored label is written in another case than the supplied one, in a
\* store with at least one other entry.
C7_Witness ==
    /\ IsWrite(last)
    /\ ~last.overwriteLabel
    /\ LastKey(last) \in DOMAIN csf.Values
    /\ csf.Values[LastKey(last)].Value = last.lv.Value
    /\ LabelValueString(csf.Values[LastKey(last)].Label) # LabelValueString(last.lv.Label)
    /\ Cardinality(DOMAIN csf.Values) > 1

\* C8: WriteLabelValue with a name that is no key appends the name to Order,
\* whatever the store holds.
C8_WriteAppends ==
    [][(last'.op = "WriteLabelValue" /\ LastKey(last') \notin DOMAIN csf.Values)
       => csf'.Order = Append(csf.Order, LastKey(last'))]_vars

\* C10: RemoveLabelValue with a name that is no key changes nothing of the handle,
\* header scalars included; with a key it deletes the entry and the one element
\* of Order that holds the key.
C10_RemoveExact ==
    [][last'.op = "RemoveLabelValue"
       => IF ToUpper(last'.name) \notin DOMAIN csf.Values
          THEN csf' = csf
          ELSE /\ csf'.Values = MapDelete(csf.Values, ToUpper(last'.name))
               /\ \E p \in 0..(Len(csf.Order) - 1) :
                    /\ csf.Order[p + 1] = ToUpper(last'.name)
                    /\ InsertedAt(csf.Order, csf'.Order, ToUpper(last'.name), p)
               /\ ToUpper(last'.name) \notin Range(csf'.Order)]_vars

(***************************************************************************)
(* Properties of the codec (checked under SpecCodec).  The input file was  *)
(* laid out from input.hdr and input.recs and cut after input.cut bytes of *)
(* its last section.                                                       *)
(***************************************************************************)
\* the bytes of the input file
Original(in) == WireFile(in.hdr, in.recs, in.cut)

\* record i is the first of recs with its name, case ignored
IsFirst(recs, i) ==
    \A j \in 1..(i - 1) : ToUpper(recs[j].Name) # ToUpper(recs[i].Name)

\* the records of recs, from the i-th on, that are the first with their name
RECURSIVE Firsts(_, _)
Firsts(recs, i) ==
    IF i > Len(recs) THEN <<>>
    ELSE (IF IsFirst(recs, i) THEN <<recs[i]>> ELSE <<>>) \o Firsts(recs, i + 1)

\* the last record of recs with the name key, case ignored
LastOf(recs, key) ==
    recs[CHOOSE i \in 1..Len(recs) :
           /\ ToUpper(recs[i].Name) = key
           /\ \A j \in (i + 1)..Len(recs) : ToUpper(recs[j].Name) # key]

\* the category of an upper-case name: the text before its first ':', or ""
CategoryOf(u) ==
    IF \A i \in 1..Len(u) : u[i] # 58 THEN <<>>
    ELSE SubSeq(u, 1, (CHOOSE i \in 1..Len(u) :
                         u[i] = 58 /\ \A j \in 1..(i - 1) : u[j] # 58) - 1)

\* every category of recs with the names whose first record falls in it, in order
ExpectedCategories(recs) ==
    [c \in {CategoryOf(ToUpper(recs[i].Name)) : i \in 1..Len(recs)} |->
       SelectSeq([i \in 1..Len(Firsts(recs, 1)) |-> Firsts(recs, 1)[i].Name],
                 LAMBDA n : CategoryOf(ToUpper(n)) = c)]

\* how many elements of the lists of cats are the name key, case ignored
PlacedCount(cats, key) ==
    Cardinality({<<c, i>> \in UNION {{c} \X (1..Len(cats[c])) : c \in DOMAIN cats} :
                   ToUpper(cats[c][i]) = key})

\* C3: after decoding, Categories maps every category prefix to the list of all
\* label names whose first record has that prefix, the first label of each
\* category included.
C3_CategoriesComplete ==
    (pc = "open" /\ Complete(input)) => csf.Categories = ExpectedCategories(input.recs)

Canonical(in) ==
    /\ Complete(in)
    /\ \A i \in 1..Len(in.recs) : in.recs[i].StringPairs = 1 /\ IsFirst(in.recs, i)

SavedOk == last.op = "Save" /\ last.err = "nil"

\* C5 as stated, on the streams that end with a complete section (C6 is about
\* the others): whatever stream Open decoded, a Save that follows it with no call
\* in between leaves the very bytes of the stream in the file, pairCount fields
\* and record order included.
C5_RoundTrip == (SavedOk /\ Complete(input)) => file = Original(input)

\* C5 amended: the same for the streams made of a header and complete records
\* with pairCount 1 and pairwise different names.
C5_RoundTripCanonical == (SavedOk /\ Canonical(input)) => file = Original(input)

\* C5 amended happens: a stream of two records, one with text and one with an
\* extra value, was decoded and saved.
C5_Witness ==
    /\ SavedOk
    /\ Canonical(input)
    /\ Len(input.recs) = 2
    /\ \E i \in 1..2 : input.recs[i].HaveExtra /\ input.recs[i].Extra # <<>>
    /\ \E i \in 1..2 : input.recs[i].Text # <<>>
    /\ file = Original(input)

\* C6: Open fails whenever the stream ends anywhere but right after the header
\* or right after a complete record.
C6_TruncationFails == (pc # "init" /\ ~Complete(input)) => pc = "failed"

(***************************************************************************)
(* Properties of the merge command (checked under SpecMerge).              *)
(***************************************************************************)
\* the destination as merge opened it
Destination == OpenFile(Original(input)).csf

Merged == last.op = "merge" /\ pc = "open"

\* C9: merge leaves the destination's Order and key set as they were; a name of
\* both stores carries the source's value under the destination's label text, a
\* name of the destination alone is unchanged, a name of the source alone is not
\* added.
C9_MergeExistingOnly ==
    Merged =>
        /\ csf.Order = Destination.Order
        /\ DOMAIN csf.Values = DOMAIN Destination.Values
        /\ \A k \in DOMAIN Destination.Values :
             IF k \in DOMAIN other.csf.Values
             THEN /\ csf.Values[k].Value = other.csf.Values[k].Value
                  /\ LabelValueString(csf.Values[k].Label)
                       = LabelValueString(Destination.Values[k].Label)
             ELSE csf.Values[k] = Destination.Values[k]

\* C9 happens: a merge has run on stores that share a name, written in different
\* case and with different values, and that each hold a name the other lacks.
C9_Witness ==
    /\ Merged
    /\ \E k \in DOMAIN csf.Values \cap DOMAIN other.csf.Values :
         /\ LabelValueString(csf.Values[k].Label)
              # LabelValueString(other.csf.Values[k].Label)
         /\ csf.Values[k].Value = other.csf.Values[k].Value
         /\ csf.Values[k].Value.Value # Destination.Values[k].Value.Value
    /\ DOMAIN other.csf.Values \ DOMAIN csf.Values # {}
    /\ DOMAIN csf.Values \ DOMAIN other.csf.Values # {}

(***************************************************************************)
(* Properties of Save (checked under SpecSave).                            *)
(***************************************************************************)
\* the temporary file once the whole buffer of the store is written to it
FullTmp == writeOver(tmp.data, saveBuffer(csf), Len(saveBuffer(csf)))

\* C11: a Save that returns an error leaves the file at the original path as it
\* was, and the file at the original path only ever changes in a Save that
\* returns no error, to the fully written temporary file, which is then gone.
C11_FailedSaveKeepsFile ==
    [][/\ (last'.op = "Save" /\ last'.err # "nil") => file' = file
       /\ file' # file => /\ last'.op = "Save"
                          /\ last'.err = "nil"
                          /\ file' = FullTmp
                          /\ ~tmp'.exists]_vars

\* C11 happens: a Save has failed after bytes that differ from the original
\* file reached the temporary file.
C11_Witness ==
    /\ last.op = "Save"
    /\ last.err # "nil"
    /\ tmp.exists
    /\ tmp.data # <<>>
    /\ tmp.data # file

\* C15: after a Save that returned no error the file at the original path is the
\* header followed by one record per element of Order, and nothing else.
C15_SavedFileIsTable ==
    (last.op = "Save" /\ last.err = "nil") => file = saveBuffer(csf)

(***************************************************************************)
(* Categories after writes (checked under Spec).                           *)
(***************************************************************************)
\* C12: after a write of a name that was no key, Categories lists the name, in
\* any case, under its prefix category.
C12_WriteSetsCategory ==
    [][(IsWrite(last') /\ LastKey(last') \notin DOMAIN csf.Values)
       => /\ CategoryOf(LastKey(last')) \in DOMAIN csf'.Categories
          /\ \E i \in 1..Len(csf'.Categories[CategoryOf(LastKey(last'))]) :
               ToUpper(csf'.Categories[CategoryOf(LastKey(last'))][i])
                 = LastKey(last')]_vars

(***************************************************************************)
(* Properties of the value text codec (checked under SpecText).            *)
(***************************************************************************)
\* the UTF-16 code units of a Unicode scalar value
Utf16Units(r) ==
    IF r < 65536 THEN <<r>>
    ELSE <<55296 + ((r - 65536) \div 1024), 56320 + ((r - 65536) % 1024)>>

\* the UTF-16LE bytes of a text: low byte first for every code unit
Utf16LE(s) ==
    Concat([i \in 1..Len(s) |->
              Concat([j \in 1..Len(Utf16Units(s[i])) |->
                        <<Utf16Units(s[i])[j] % 256, Utf16Units(s[i])[j] \div 256>>])])

\* C13: after Write(s) the stored bytes are the bytewise complement of the
\* UTF-16LE encoding of s; a following ValueString returns s and leaves the
\* stored bytes as they were; the complement applied twice to any stored bytes
\* gives them back.
C13_TextRoundTrip ==
    /\ pc \in {"written", "read"} =>
         other.value.Value
           = [i \in 1..Len(Utf16LE(input.text)) |-> 255 - Utf16LE(input.text)[i]]
    /\ pc = "read" => other.text = input.text
    /\ pc = "twice" => other.value.Value = input.bytes

\* C13 happens: a text with an ASCII rune and a rune outside the BMP has been
\* written and read back.
C13_Witness ==
    /\ pc = "read"
    /\ \E i, j \in 1..Len(input.text) : input.text[i] < 128 /\ input.text[j] >= 65536
    /\ other.text # <<>>

(***************************************************************************)
(* Properties of the record limit (checked under SpecLimit).               *)
(***************************************************************************)
\* the number of records of the whole stream
StreamRecords == input.done + Len(input.recs)

\* C14: decoding fails exactly when the stream has more than 20000 records,
\* repeated names counted; when it fails the handle has no entries, no order
\* and no categories, when it succeeds it has the names read.
C14_LimitExact ==
    pc # "reading" =>
        /\ pc = "failed" <=> StreamRecords > MaxCounter
        /\ pc = "failed" =>
             /\ csf.Values = EmptyMap
             /\ csf.Order = <<>>
             /\ csf.Categories = EmptyMap
        /\ pc = "open" =>
             /\ csf.Order # <<>>
             /\ Range(csf.Order) = DOMAIN csf.Values

\* C14 happens: a stream of exactly 20001 records, the last two of them read in
\* this step, has been refused.
C14_Witness ==
    /\ pc = "failed"
    /\ StreamRecords = MaxCounter + 1
    /\ Len(input.recs) = 2

====
